---------------------------- MODULE Spec2Model ----------------------------
(***************************************************************************)
(* heatwave: the per-event handler HeatwaveRunner::default_handler, the    *)
(* user event thread it spawns, the two mpsc channels between them, the    *)
(* buffer and pipeline registries of HeatwaveApp (src/src/lib.rs), and     *)
(* GpuConnection::new (src/src/gpu.rs).                                    *)
(*                                                                         *)
(* Two compositions of the handler's code are checked, and the connection  *)
(* on its own.                                                             *)
(*                                                                         *)
(*   Spec / FairSpec   the program as written: every call of               *)
(*       default_handler creates a fresh channel pair, spawns the user     *)
(*       thread and joins it (lib.rs:231-273) before it looks at the       *)
(*       event.  The spawned thread blocks in receiver_user.recv() on an   *)
(*       empty channel whose sender is still held by the joining thread,   *)
(*       so the join never returns and the event match (lib.rs:275-309)    *)
(*       is never reached.                                                 *)
(*                                                                         *)
(*   SpecBridge        the thread body (lib.rs:236-272) and the event      *)
(*       match (lib.rs:275-309) run as two threads over one channel pair,  *)
(*       the thread keeping its mouse_position across events as its own    *)
(*       code expects.  It differs from Spec only in how the match is      *)
(*       entered: Deliver instead of HandlerEntry followed by JoinReturn.  *)
(*                                                                         *)
(*   SpecConnect       GpuConnection::new for every window size, outcome   *)
(*       of its fallible steps and list of supported surface formats.      *)
(***************************************************************************)
EXTENDS Integers, Sequences, FiniteSets, TLC

\* ------------------------------------------------------------- bounds
\* OS events the event loop delivers in one run.
MaxEvents == 3
\* Distinct cursor positions the OS reports.
MaxPos == 2
\* Calls of the add operations (buffers and pipelines) before the run.
MaxAdds == 2
\* Distinct buffer descriptors handed to the add operations.
MaxDesc == 2
\* Longest list of formats a surface reports as supported.
MaxFormats == 2

VARIABLES
    os_pc,           \* where the OS event thread is
    cur,             \* the winit event default_handler was called with
    exiting,         \* args.target.exit() has been called
    delivered,       \* history: events the event loop handed to the handler
    spawned,         \* calls of thread::spawn, each with its own channel pair
    user_pc,         \* where the user event thread is
    mouse_position,  \* the user thread's tracked cursor position
    to_user,         \* queue sender_presenter -> receiver_user
    to_presenter,    \* queue sender_user -> receiver_presenter
    forwarded,       \* history: messages enqueued on to_user
    handled,         \* history: what the user thread did with each message
    answered,        \* history: messages the user thread sent on to_presenter
    taken,           \* history: messages the OS thread received, and where
    renders,         \* history: render data given to Handler::render
    os_log,          \* log lines written by the OS thread
    user_log,        \* log lines written by the user thread
    buffers,         \* HeatwaveApp.buffers
    next_buffer_id,  \* HeatwaveApp.next_buffer_id
    render_pipelines,   \* HeatwaveApp.render_pipelines
    next_render_id,     \* HeatwaveApp.next_render_id
    compute_pipelines,  \* HeatwaveApp.compute_pipelines
    next_compute_id,    \* HeatwaveApp.next_compute_id
    issued,          \* history: each add call's descriptor, object and handle
    converted,       \* history: simple descriptors given to the conversion
    touched,         \* history: which thread has used which object
    connect_args,    \* what GpuConnection::new meets on its way
    connect_result,  \* how GpuConnection::new ended; "none" while it runs
    connection       \* HeatwaveApp.connection: empty, or the one GpuConnection

vars == << os_pc, cur, exiting, delivered, spawned, user_pc, mouse_position,
           to_user, to_presenter, forwarded, handled, answered, taken,
           renders, os_log, user_log, buffers, next_buffer_id,
           render_pipelines, next_render_id, compute_pipelines,
           next_compute_id, issued, converted, touched, connect_args,
           connect_result, connection >>

osVars == << os_pc, cur, exiting, delivered >>
userVars == << user_pc, mouse_position, handled, answered, user_log >>
registryVars == << buffers, next_buffer_id, render_pipelines, next_render_id,
                   compute_pipelines, next_compute_id, issued, converted >>
gpuVars == << connect_args, connect_result, connection >>

\* ------------------------------------------------------- sizes, formats
Size(w, h) == [width |-> w, height |-> h]

NoSize == Size(0, 0)

\* Inner sizes a window may have when the connection is made, and client
\* sizes a Resized event may carry.
WindowSizes == {Size(0, 0), Size(0, 600), Size(800, 600), Size(1024, 768)}

ResizeSizes == {Size(0, 0), Size(1024, 768)}

\* Texture formats a surface may report.
Formats == {"Bgra8Unorm", "Rgba8Unorm", "Bgra8UnormSrgb", "Rgba8UnormSrgb"}

RECURSIVE SeqsOf(_, _)
SeqsOf(S, n) ==
    IF n = 0 THEN {<< >>}
    ELSE SeqsOf(S, n - 1)
         \cup { Append(q, x) : q \in { r \in SeqsOf(S, n - 1) : Len(r) = n - 1 },
                               x \in S }

FormatLists == SeqsOf(Formats, MaxFormats) \ {<< >>}

\* ------------------------------------------------------------- events
Positions == 1..MaxPos

OsEvent(w, k, p, x) ==
    [win |-> w, kind |-> k, pressed |-> p, pos |-> x, size |-> NoSize]

\* WindowEvent::Resized(size) of window w.
ResizedEvent(w, s) == [OsEvent(w, "Resized", FALSE, 0) EXCEPT !.size = s]

NoEvent == OsEvent("none", "None", FALSE, 0)

\* winit window events of the application's own window.
OwnWindowEvents ==
    { OsEvent("own", k, FALSE, 0) :
        k \in {"RedrawRequested", "CloseRequested", "Destroyed",
               "ThemeChanged"} }
    \cup { ResizedEvent("own", s) : s \in ResizeSizes }
    \cup { OsEvent("own", "CursorMoved", FALSE, x) : x \in Positions }
    \cup { OsEvent("own", k, p, 0) :
             k \in {"KeyboardInput", "MouseInput"}, p \in BOOLEAN }

\* Everything the event loop may hand to the handler: the above, a window
\* event of another window, and an event that is no window event.
LoopEvents ==
    OwnWindowEvents
    \cup { ResizedEvent("other", Size(1024, 768)),
           OsEvent("nowindow", "AboutToWait", FALSE, 0) }

WinMsg(k, x) == [kind |-> k, pos |-> x, size |-> NoSize]

UserMsg(k, d) == [kind |-> k, data |-> d]

\* impl From<winit::event::WindowEvent> for WindowEvent
FromIgnoringState(e) ==
    CASE e.kind = "Resized"
             -> [WinMsg("Resized", 0) EXCEPT !.size = e.size]
      [] e.kind \in {"Moved", "CloseRequested", "Destroyed",
                     "DroppedFile", "HoveredFile", "HoveredFileCancelled",
                     "Focused", "ModifiersChanged", "Ime", "CursorEntered",
                     "CursorLeft", "MouseWheel", "AxisMotion", "Touch",
                     "ScaleFactorChanged", "Occluded"}
             -> WinMsg(e.kind, 0)
      [] e.kind = "KeyboardInput" -> WinMsg("KeyboardDown", 0)
      [] e.kind = "CursorMoved" -> WinMsg("CursorMoved", e.pos)
      [] e.kind = "MouseInput" -> WinMsg("MouseDown", 0)
      [] OTHER -> WinMsg("Unknown", 0)

From(e) ==
    CASE e.kind = "Resized"
             -> [WinMsg("Resized", 0) EXCEPT !.size = e.size]
      [] e.kind \in {"Moved", "CloseRequested", "Destroyed",
                     "DroppedFile", "HoveredFile", "HoveredFileCancelled",
                     "Focused", "ModifiersChanged", "Ime", "CursorEntered",
                     "CursorLeft", "MouseWheel", "AxisMotion", "Touch",
                     "ScaleFactorChanged", "Occluded"}
             -> WinMsg(e.kind, 0)
      [] e.kind = "KeyboardInput" /\ e.pressed -> WinMsg("KeyboardDown", 0)
      [] e.kind = "KeyboardInput" /\ ~e.pressed -> WinMsg("KeyboardUp", 0)
      [] e.kind = "CursorMoved" -> WinMsg("CursorMoved", e.pos)
      [] e.kind = "MouseInput" /\ e.pressed -> WinMsg("MouseDown", 0)
      [] e.kind = "MouseInput" /\ ~e.pressed -> WinMsg("MouseUp", 0)
      [] OTHER -> WinMsg("Unknown", 0)

\* ------------------------------------------------------------ threads
\* The thread that runs main's setup and then the event loop, and the thread
\* default_handler spawns.
OsThread == "os"

UserThreadId == "user"

Touch(t, o) == [thread |-> t, object |-> o]

\* The application object with its registries, and its GPU connection.
GpuObjects == {"app", "registry", "connection"}

\* What the spawned closure uses while it handles m: of what it captured
\* (presenter, receiver_user, sender_user; not app), the presenter for the
\* arm's callback; the Unknown arm uses nothing.
UserTouchesApp(m) == {Touch(UserThreadId, "presenter"), Touch(UserThreadId, "app")}

UserTouches(m) ==
    IF m.kind = "Unknown" THEN {} ELSE {Touch(UserThreadId, "presenter")}

\* ----------------------------------------------------------- channels
\* The OS thread holds sender_presenter and receiver_presenter while it runs.
OsAlive == os_pc \notin {"exited", "panicked"}

\* The user thread holds receiver_user and sender_user while it runs.
UserAlive == user_pc \in {"recv", "callback"}

\* Sender::send: the message is queued while the receiver exists; the Err a
\* dropped receiver gives is ignored by every caller.
Send(q, m, receiverAlive) == IF receiverAlive THEN Append(q, m) ELSE q

\* Receiver::recv hands out the oldest queued message.
RecvLast(q) == q[Len(q)]

Recv(q) == Head(q)

Rest(q) == Tail(q)

\* Receiver::recv gives Err once the queue is empty and the sender is gone.
PresenterDisconnected == to_presenter = << >> /\ ~UserAlive

UserDisconnected == to_user = << >> /\ ~OsAlive

\* ------------------------------------------------------ the connection
\* What GpuConnection::new meets: the window's inner size, whether each of
\* its fallible steps succeeds once reached, and the formats the surface
\* reports for the adapter (never empty for an adapter that was requested
\* as compatible with the surface).
ConnectArgs ==
    [size : WindowSizes,
     surface_ok : BOOLEAN,
     adapter_ok : BOOLEAN,
     device_ok : BOOLEAN,
     formats : FormatLists]

\* wgpu::TextureFormat::is_srgb
IsSrgb(f) == f \in {"Bgra8UnormSrgb", "Rgba8UnormSrgb"}

\* The index find() stops at: the first format of the list that is sRGB.
FindSrgb(formats) ==
    LET hits == { i \in DOMAIN formats : IsSrgb(formats[i]) }
    IN IF hits = {} THEN 0
       ELSE CHOOSE i \in hits : \A j \in hits : i <= j

\* formats.iter().copied().find(|f| f.is_srgb()).unwrap_or(formats[0])
SurfaceFormatFirst(formats) == formats[1]

SurfaceFormat(formats) ==
    IF FindSrgb(formats) # 0 THEN formats[FindSrgb(formats)] ELSE formats[1]

SurfaceConfiguration(format, size) ==
    [format |-> format,
     width |-> size.width,
     height |-> size.height,
     present_mode |-> "AutoVsync",
     desired_maximum_frame_latency |-> 2]

GpuConnection(a) ==
    [surface_config |-> SurfaceConfiguration(SurfaceFormat(a.formats), a.size),
     texture_size |-> a.size]

\* The kind GpuConnection::new ends with: the assert on the window size,
\* then surface creation, adapter request and device request in this order,
\* each returning its own error kind at once.
ConnectOutcomeDeviceFirst(a) ==
    IF ~(a.size.width > 0 /\ a.size.height > 0) THEN "panic"
    ELSE IF ~a.device_ok THEN "DeviceRequest"
    ELSE IF ~a.surface_ok THEN "SurfaceCreation"
    ELSE IF ~a.adapter_ok THEN "CompatibleAdapterNotFound"
    ELSE "Ok"

ConnectOutcome(a) ==
    IF ~(a.size.width > 0 /\ a.size.height > 0) THEN "panic"
    ELSE IF ~a.surface_ok THEN "SurfaceCreation"
    ELSE IF ~a.adapter_ok THEN "CompatibleAdapterNotFound"
    ELSE IF ~a.device_ok THEN "DeviceRequest"
    ELSE "Ok"

\* GpuConnection::new, called by HeatwaveApp::new_with_window: on Ok the
\* application object is built around the connection, with empty registries;
\* an Err is passed on by `?` and a panic unwinds, both without an object.
New ==
    /\ os_pc = "new"
    /\ connect_result' = ConnectOutcome(connect_args)
    /\ connection' = IF ConnectOutcome(connect_args) = "Ok"
                     THEN {GpuConnection(connect_args)}
                     ELSE {}
    /\ os_pc' = CASE ConnectOutcome(connect_args) = "Ok" -> "setup"
                  [] ConnectOutcome(connect_args) = "panic" -> "panicked"
                  [] OTHER -> "init_failed"
    /\ touched' = touched \cup {Touch(OsThread, "connection")}
    /\ UNCHANGED << cur, exiting, delivered, userVars, spawned, to_user,
                    to_presenter, forwarded, taken, renders, os_log,
                    registryVars, connect_args >>

\* GpuConnection::surface_config
SurfaceConfig == (CHOOSE c \in connection : TRUE).surface_config

\* ----------------------------------------------------------- registry
BufferObject(d, i) == [desc |-> d, init |-> i]

\* HashMap::insert
InsertAlone(map, id, obj) == [h \in {id} |-> obj]

Insert(map, id, obj) ==
    [h \in DOMAIN map \cup {id} |-> IF h = id THEN obj ELSE map[h]]

\* `self.next_*_id += 1`
NextIdStuck(id) == id

NextId(id) == id + 1

\* `self.next_*_id - 1`, the value an add operation returns.
ReturnedHandleNext(next) == next

ReturnedHandle(next) == next - 1

Issued(n, h, d, o) == [ns |-> n, handle |-> h, desc |-> d, obj |-> o]

\* HeatwaveApp::add_buffer
AddBuffer ==
    /\ os_pc = "setup"
    /\ Len(issued) < MaxAdds
    /\ \E d \in 1..MaxDesc :
         LET obj == BufferObject(d, FALSE)
             next == NextId(next_buffer_id)
         IN /\ buffers' = Insert(buffers, next_buffer_id, obj)
            /\ next_buffer_id' = next
            /\ issued' = Append(issued,
                           Issued("buffer", ReturnedHandle(next), d, obj))
    /\ touched' = touched \cup {Touch(OsThread, "connection"), Touch(OsThread, "registry")}
    /\ UNCHANGED << osVars, userVars, spawned, to_user, to_presenter,
                    forwarded, taken, renders, os_log, render_pipelines,
                    next_render_id, compute_pipelines, next_compute_id,
                    converted, gpuVars >>

\* HeatwaveApp::add_buffer_with_defaults
AddBufferWithDefaults ==
    /\ os_pc = "setup"
    /\ Len(issued) < MaxAdds
    /\ \E d \in 1..MaxDesc :
         LET obj == BufferObject(d, TRUE)
             next == NextId(next_buffer_id)
         IN /\ buffers' = Insert(buffers, next_buffer_id, obj)
            /\ next_buffer_id' = next
            /\ issued' = Append(issued,
                           Issued("buffer", ReturnedHandle(next), d, obj))
    /\ touched' = touched \cup {Touch(OsThread, "connection"), Touch(OsThread, "registry")}
    /\ UNCHANGED << osVars, userVars, spawned, to_user, to_presenter,
                    forwarded, taken, renders, os_log, render_pipelines,
                    next_render_id, compute_pipelines, next_compute_id,
                    converted, gpuVars >>

\* ---------------------------------------------------------- pipelines
\* A colour target the caller wrote into its fragment state.
CallerTarget ==
    [format |-> "Rgba16Float", blend |-> "ALPHA_BLENDING", write_mask |-> "COLOR"]

\* RenderPipelineDescriptor as far as the add operation reads it: the
\* optional layout, and the optional fragment state's list of targets.
RenderPipelineDescriptors ==
    { [layout |-> l, has_fragment |-> FALSE, targets |-> << >>] :
        l \in {"None", "caller_layout"} }
    \cup { [layout |-> l, has_fragment |-> TRUE, targets |-> t] :
             l \in {"None", "caller_layout"},
             t \in {<< >>, << CallerTarget >>} }

ComputePipelineDescriptors == { [layout |-> l] : l \in {"None", "caller_layout"} }

\* `if desc.layout.is_none() { desc.layout = Some(&self.pipeline_layout) }`
LayoutAlwaysShared(layout) == "pipeline_layout"

Layout(layout) == IF layout = "None" THEN "pipeline_layout" ELSE layout

\* The target filled in for a fragment state that lists none.
SurfaceTarget ==
    [format |-> SurfaceConfig.format, blend |-> "REPLACE", write_mask |-> "ALL"]

\* `if let Some(fragment) = &mut desc.fragment { if fragment.targets
\* .is_empty() { .. fragment.targets = &targets } }`
TargetsAsGiven(desc) == desc.targets

Targets(desc) ==
    IF desc.has_fragment /\ desc.targets = << >>
    THEN << SurfaceTarget >>
    ELSE desc.targets

\* Device::create_render_pipeline on the descriptor as the add operation
\* left it.
RenderPipelineObject(desc) ==
    [layout |-> Layout(desc.layout),
     has_fragment |-> desc.has_fragment,
     targets |-> Targets(desc)]

ComputePipelineObject(desc) == [layout |-> Layout(desc.layout)]

\* HeatwaveApp::add_render_pipeline
AddRenderPipeline ==
    /\ os_pc = "setup"
    /\ Len(issued) < MaxAdds
    /\ \E d \in RenderPipelineDescriptors :
         LET obj == RenderPipelineObject(d)
             next == NextId(next_render_id)
         IN /\ render_pipelines' = Insert(render_pipelines, next_render_id, obj)
            /\ next_render_id' = next
            /\ issued' = Append(issued,
                           Issued("render", ReturnedHandle(next), d, obj))
    /\ touched' = touched \cup {Touch(OsThread, "connection"), Touch(OsThread, "registry")}
    /\ UNCHANGED << osVars, userVars, spawned, to_user, to_presenter,
                    forwarded, taken, renders, os_log, buffers,
                    next_buffer_id, compute_pipelines, next_compute_id,
                    converted, gpuVars >>

\* HeatwaveApp::add_compute_pipeline
AddComputePipeline ==
    /\ os_pc = "setup"
    /\ Len(issued) < MaxAdds
    /\ \E d \in ComputePipelineDescriptors :
         LET obj == ComputePipelineObject(d)
             next == NextId(next_compute_id)
         IN /\ compute_pipelines' =
                   Insert(compute_pipelines, next_compute_id, obj)
            /\ next_compute_id' = next
            /\ issued' = Append(issued,
                           Issued("compute", ReturnedHandle(next), d, obj))
    /\ touched' = touched \cup {Touch(OsThread, "connection"), Touch(OsThread, "registry")}
    /\ UNCHANGED << osVars, userVars, spawned, to_user, to_presenter,
                    forwarded, taken, renders, os_log, buffers,
                    next_buffer_id, render_pipelines, next_render_id,
                    converted, gpuVars >>

\* ------------------------------------------ the simple descriptor
\* SimpleRenderPipelineDescriptor as far as the conversion branches on it:
\* the optional fragment module and the optional fragment entry point.
SimpleRenderPipelineDescriptors ==
    [has_fragment : BOOLEAN, fragment_entry_point : {"None", "fs_main"}]

\* `val.fragment.map(|fragment| FragmentState { .. entry_point:
\* val.fragment_entry_point.expect(..) .. })`: the closure, and with it the
\* expect, runs only for a fragment module that is there.
ConversionPanicsNever(sd) == FALSE

ConversionPanics(sd) == sd.has_fragment /\ sd.fragment_entry_point = "None"

\* impl From<SimpleRenderPipelineDescriptor> for RenderPipelineDescriptor,
\* where it does not panic: no layout, and a fragment state without targets
\* for a fragment module.
FromSimple(sd) ==
    [layout |-> "None", has_fragment |-> sd.has_fragment, targets |-> << >>]

Converted(sd) ==
    [simple |-> sd, panicked |-> ConversionPanics(sd), adds |-> Len(issued)]

\* HeatwaveApp::add_render_pipeline called with a simple descriptor: its
\* first statement is descriptor.into(), whose panic ends the call (and the
\* thread that made it) before anything is created or inserted.
AddSimpleRenderPipeline ==
    /\ os_pc = "setup"
    /\ Len(issued) < MaxAdds
    /\ \E sd \in SimpleRenderPipelineDescriptors :
         /\ converted' = Append(converted, Converted(sd))
         /\ IF ConversionPanics(sd)
            THEN /\ os_pc' = "panicked"
                 /\ UNCHANGED << render_pipelines, next_render_id, issued,
                                 touched >>
            ELSE LET d == FromSimple(sd)
                     obj == RenderPipelineObject(d)
                     next == NextId(next_render_id)
                 IN /\ render_pipelines' =
                           Insert(render_pipelines, next_render_id, obj)
                    /\ next_render_id' = next
                    /\ issued' = Append(issued,
                                   Issued("render", ReturnedHandle(next), d, obj))
                    /\ touched' = touched \cup {Touch(OsThread, "connection"),
                                                 Touch(OsThread, "registry")}
                    /\ os_pc' = os_pc
    /\ UNCHANGED << cur, exiting, delivered, userVars, spawned, to_user,
                    to_presenter, forwarded, taken, renders, os_log, buffers,
                    next_buffer_id, compute_pipelines, next_compute_id,
                    gpuVars >>

\* The mapping of a namespace.
Registry(ns) ==
    CASE ns = "buffer" -> buffers
      [] ns = "render" -> render_pipelines
      [] ns = "compute" -> compute_pipelines

Namespaces == {"buffer", "render", "compute"}

\* get(handle): the object stored under the handle in the namespace's
\* mapping, or nothing.
NotFound == {}

Get(ns, h) == IF h \in DOMAIN Registry(ns) THEN {Registry(ns)[h]} ELSE NotFound

\* HeatwaveApp::build_runner followed by HeatwaveRunner::run: the event loop
\* starts and owns the app from here on.
Run ==
    /\ os_pc = "setup"
    /\ os_pc' = "loop"
    /\ UNCHANGED << touched, cur, exiting, delivered, userVars, spawned, to_user,
                    to_presenter, forwarded, taken, renders, os_log,
                    registryVars, gpuVars >>

\* ------------------------------------------------ the handler's entry
\* default_handler as written, up to the join: a fresh channel pair, a
\* fresh thread (with its own mouse_position), and the caller blocked in
\* JoinHandle::join.
HandlerEntry ==
    /\ os_pc = "loop"
    /\ Len(delivered) < MaxEvents
    /\ \E e \in LoopEvents : cur' = e /\ delivered' = Append(delivered, e)
    /\ to_user' = << >>
    /\ to_presenter' = << >>
    /\ spawned' = spawned + 1
    /\ user_pc' = "recv"
    /\ mouse_position' = 0
    /\ os_pc' = "join"
    /\ UNCHANGED << touched, exiting, handled, answered, user_log, forwarded, taken,
                    renders, os_log, registryVars,
                    gpuVars >>

\* The join returns once the spawned thread has ended.
JoinReturn ==
    /\ os_pc = "join"
    /\ user_pc \in {"exited", "panicked"}
    /\ os_pc' = IF user_pc = "panicked" THEN "panicked" ELSE "match"
    /\ UNCHANGED << touched, cur, exiting, delivered, userVars, spawned, to_user,
                    to_presenter, forwarded, taken, renders, os_log,
                    registryVars, gpuVars >>

\* ------------------------------------------------- the user thread
\* The presenter callback the thread's match runs for a message; "none" for
\* the Unknown arm, which only logs.
CallbackOfNoLogArm(m) ==
    CASE m.kind \in {"CloseRequested", "Destroyed"} -> "on_exit"
      [] m.kind = "RequestRenderData" -> "package_render_data"
      [] OTHER -> "on_window_move"

CallbackOf(m) ==
    CASE m.kind \in {"CloseRequested", "Destroyed"} -> "on_exit"
      [] m.kind = "CursorEntered" -> "on_cursor_enter"
      [] m.kind = "CursorMoved" -> "on_cursor_move"
      [] m.kind = "CursorLeft" -> "on_cursor_leave"
      [] m.kind = "AxisMotion" -> "on_analog_axis_motion"
      [] m.kind = "DroppedFile" -> "on_file_drop"
      [] m.kind = "HoveredFile" -> "on_file_hover"
      [] m.kind = "HoveredFileCancelled" -> "on_file_hover_cancel"
      [] m.kind = "Focused" -> "on_window_focus_changed"
      [] m.kind = "Ime" -> "on_ime_input"
      [] m.kind = "KeyboardDown" -> "on_key_press"
      [] m.kind = "KeyboardUp" -> "on_key_release"
      [] m.kind = "ModifiersChanged" -> "on_modifier_changed"
      [] m.kind = "MouseDown" -> "on_mouse_down"
      [] m.kind = "MouseUp" -> "on_mouse_up"
      [] m.kind = "MouseWheel" -> "on_mouse_scroll"
      [] m.kind = "Occluded" -> "on_occlusion"
      [] m.kind = "RequestRenderData" -> "package_render_data"
      [] m.kind = "Resized" -> "on_window_resize"
      [] m.kind = "Moved" -> "on_window_move"
      [] m.kind = "ScaleFactorChanged" -> "on_scale_factor_change"
      [] m.kind = "Touch" -> "on_touch"
      [] OTHER -> "none"

\* The position argument the callback is given: the event's own position
\* for a cursor move, the tracked one for a button press or release.
CallbackPosOrigin(m) ==
    CASE m.kind = "CursorMoved" -> m.pos
      [] OTHER -> 0

CallbackPos(m) ==
    CASE m.kind = "CursorMoved" -> m.pos
      [] m.kind \in {"MouseDown", "MouseUp"} -> mouse_position
      [] OTHER -> 0

Handled(m, completed) ==
    [ev |-> m, cb |-> CallbackOf(m), pos |-> CallbackPos(m), done |-> completed]

\* What the thread sends on sender_user after the callback for m returned.
Replies(m) ==
    CASE m.kind \in {"CloseRequested", "Destroyed"}
             -> << UserMsg("ReadyToClose", 0) >>
      [] m.kind = "RequestRenderData"
             -> << UserMsg("RenderDataPrepared",
                           1 + Cardinality({ i \in DOMAIN handled :
                                   handled[i].cb = "package_render_data"
                                   /\ handled[i].done })) >>
      [] OTHER -> << >>

\* What an arm sends on sender_user before it calls the presenter: nothing,
\* the close arm's send follows on_exit() and the render arm's send takes
\* the value package_render_data() returned.
SentBeforeCallbackAck(m) ==
    IF m.kind \in {"CloseRequested", "Destroyed"}
    THEN << UserMsg("ReadyToClose", 0) >>
    ELSE << >>

SentBeforeCallback(m) == << >>

\* Where the thread is after an arm of `match event`: no arm breaks out of
\* the loop, so it is back in recv().
AfterArmBreakOnClose(m) ==
    IF m.kind \in {"CloseRequested", "Destroyed"} THEN "exited" ELSE "recv"

AfterArm(m) == "recv"

\* One turn of the thread's loop, Ok(event) arm, up to the call of the
\* presenter callback its match selects; the Unknown arm only logs.
UserThreadRecv ==
    /\ user_pc = "recv"
    /\ to_user # << >>
    /\ LET m == Recv(to_user)
           out == IF OsAlive THEN SentBeforeCallback(m) ELSE << >>
       IN /\ to_user' = Rest(to_user)
          /\ IF CallbackOf(m) = "none"
             THEN /\ handled' = Append(handled, Handled(m, TRUE))
                  /\ user_log' = user_log \cup {"Unknown event from window!"}
                  /\ user_pc' = AfterArm(m)
             ELSE /\ handled' = Append(handled, Handled(m, FALSE))
                  /\ user_log' = user_log
                  /\ user_pc' = "callback"
          /\ touched' = touched \cup UserTouches(m)
          /\ to_presenter' = to_presenter \o out
          /\ answered' = answered \o out
    /\ UNCHANGED << mouse_position, osVars, spawned, forwarded, taken,
                    renders, os_log, registryVars,
                    gpuVars >>

\* The message whose callback the thread is running.
InCallback == handled[Len(handled)].ev

\* The callback returns: the rest of the arm (the reply, the tracked mouse
\* position), and back to recv().
UserCallbackReturns ==
    /\ user_pc = "callback"
    /\ LET m == InCallback
           out == IF OsAlive THEN Replies(m) ELSE << >>
       IN /\ handled' = [handled EXCEPT ![Len(handled)].done = TRUE]
          /\ mouse_position' =
                 IF m.kind = "CursorMoved" THEN m.pos ELSE mouse_position
          /\ to_presenter' = to_presenter \o out
          /\ answered' = answered \o out
          /\ user_pc' = AfterArm(m)
    /\ UNCHANGED << touched, user_log, to_user, osVars, spawned, forwarded, taken,
                    renders, os_log, registryVars,
                    gpuVars >>

\* The callback panics: the thread unwinds before the rest of the arm, and
\* its ends of both channels are dropped.
UserCallbackPanics ==
    /\ user_pc = "callback"
    /\ to_user' = << >>
    /\ user_pc' = "panicked"
    /\ UNCHANGED << touched, mouse_position, handled, answered, user_log, to_presenter,
                    osVars, spawned, forwarded, taken, renders, os_log,
                    registryVars, gpuVars >>

\* The loop's Err arm: every sender_presenter is gone and the queue is empty.
UserThreadDisconnected ==
    /\ user_pc = "recv"
    /\ UserDisconnected
    /\ user_log' = user_log \cup {"Main thread disconnected early!"}
    /\ user_pc' = "exited"
    /\ UNCHANGED << touched, mouse_position, handled, answered, to_user, to_presenter,
                    osVars, spawned, forwarded, taken, renders, os_log,
                    registryVars, gpuVars >>

\* ---------------------------------------------------- the event match
\* The event loop hands the next event to the handler, whose channels and
\* user thread are those of the run.
Deliver ==
    /\ os_pc = "loop"
    /\ Len(delivered) < MaxEvents
    /\ \E e \in LoopEvents : cur' = e /\ delivered' = Append(delivered, e)
    /\ os_pc' = "match"
    /\ UNCHANGED << touched, exiting, userVars, spawned, to_user, to_presenter,
                    forwarded, taken, renders, os_log, registryVars,
                    gpuVars >>

\* Where the OS thread is once the handler returns: the event loop ends
\* after the handler that called exit().
HandlerReturn(ex) == IF ex THEN "exited" ELSE "loop"

Took(m, where) == [kind |-> m.kind, data |-> m.data, at |-> where]

\* `Handler::render(render_data, ..)`: the data of the response just
\* received.
RenderDataFirst(m) == IF renders = << >> THEN m.data ELSE renders[1]

RenderData(m) == m.data

\* `if let UserEvent::RenderDataPrepared(render_data) = response`
IsRenderDataAny(m) == TRUE

IsRenderData(m) == m.kind = "RenderDataPrepared"

\* `UserEvent::ReadyToClose => break`
IsReadyToClose(m) == m.kind = "ReadyToClose"

\* RedrawRequested arm, up to the wait loop.
ArmRedraw ==
    /\ os_pc = "match"
    /\ cur.win = "own"
    /\ cur.kind = "RedrawRequested"
    /\ to_user' = Send(to_user, WinMsg("RequestRenderData", 0), UserAlive)
    /\ forwarded' = Send(forwarded, WinMsg("RequestRenderData", 0), UserAlive)
    /\ os_pc' = "render_wait"
    /\ UNCHANGED << touched, cur, exiting, delivered, userVars, spawned, to_presenter,
                    taken, renders, os_log, registryVars,
                    gpuVars >>

\* One turn of the redraw wait loop on a received message.
RenderWaitRecv ==
    /\ os_pc = "render_wait"
    /\ to_presenter # << >>
    /\ LET m == Recv(to_presenter)
       IN /\ to_presenter' = Rest(to_presenter)
          /\ taken' = Append(taken, Took(m, "render_wait"))
          /\ IF IsRenderData(m)
             THEN /\ renders' = Append(renders, RenderData(m))
                  /\ touched' = touched \cup {Touch(OsThread, "app")}
                  /\ os_pc' = HandlerReturn(exiting)
                  /\ os_log' = os_log
             ELSE /\ renders' = renders
                  /\ touched' = touched
                  /\ os_pc' = os_pc
                  /\ os_log' = os_log \cup {"Desync: non-render data response"}
    /\ UNCHANGED << cur, exiting, delivered, userVars, spawned, to_user,
                    forwarded, registryVars,
                    gpuVars >>

\* recv() gave Err in the redraw wait loop: expect() panics.
RenderWaitDisconnectedSkip ==
    /\ os_pc = "render_wait"
    /\ PresenterDisconnected
    /\ os_pc' = HandlerReturn(exiting)
    /\ UNCHANGED << touched, cur, exiting, delivered, userVars, spawned, to_user,
                    to_presenter, forwarded, taken, renders, os_log,
                    registryVars, gpuVars >>

RenderWaitDisconnected ==
    /\ os_pc = "render_wait"
    /\ PresenterDisconnected
    /\ os_pc' = "panicked"
    /\ UNCHANGED << touched, cur, exiting, delivered, userVars, spawned, to_user,
                    to_presenter, forwarded, taken, renders, os_log,
                    registryVars, gpuVars >>

\* CloseRequested arm, up to the wait loop: exit() and nothing else.
ArmCloseNoWait ==
    /\ os_pc = "match"
    /\ cur.win = "own"
    /\ cur.kind = "CloseRequested"
    /\ exiting' = TRUE
    /\ os_pc' = "exited"
    /\ UNCHANGED << touched, cur, delivered, userVars, spawned, to_user, to_presenter,
                    forwarded, taken, renders, os_log, registryVars,
                    gpuVars >>

ArmClose ==
    /\ os_pc = "match"
    /\ cur.win = "own"
    /\ cur.kind = "CloseRequested"
    /\ exiting' = TRUE
    /\ os_pc' = "close_wait"
    /\ UNCHANGED << touched, cur, delivered, userVars, spawned, to_user, to_presenter,
                    forwarded, taken, renders, os_log, registryVars,
                    gpuVars >>

\* One turn of the close wait loop on a received message.
CloseWaitRecv ==
    /\ os_pc = "close_wait"
    /\ to_presenter # << >>
    /\ LET m == Recv(to_presenter)
       IN /\ to_presenter' = Rest(to_presenter)
          /\ taken' = Append(taken, Took(m, "close_wait"))
          /\ IF IsReadyToClose(m)
             THEN /\ os_pc' = HandlerReturn(exiting)
                  /\ os_log' = os_log
             ELSE /\ os_pc' = os_pc
                  /\ os_log' = os_log \cup {"Desync: non-closing response"}
    /\ UNCHANGED << touched, cur, exiting, delivered, userVars, spawned, to_user,
                    forwarded, renders, registryVars,
                    gpuVars >>

\* recv() gave Err in the close wait loop: a warning, and the loop goes on.
CloseWaitDisconnected ==
    /\ os_pc = "close_wait"
    /\ PresenterDisconnected
    /\ os_log' = os_log \cup {"User thread closed improperly!"}
    /\ UNCHANGED << touched, osVars, userVars, spawned, to_user, to_presenter,
                    forwarded, taken, renders, registryVars,
                    gpuVars >>

\* Any other window event of the own window: translated and sent.
ArmOrdinary ==
    /\ os_pc = "match"
    /\ cur.win = "own"
    /\ cur.kind \notin {"RedrawRequested", "CloseRequested"}
    /\ to_user' = Send(to_user, From(cur), UserAlive)
    /\ forwarded' = Send(forwarded, From(cur), UserAlive)
    /\ os_pc' = HandlerReturn(exiting)
    /\ UNCHANGED << touched, cur, exiting, delivered, userVars, spawned, to_presenter,
                    taken, renders, os_log, registryVars,
                    gpuVars >>

\* `_ => {}`: a window event of another window, or no window event.
ArmIgnore ==
    /\ os_pc = "match"
    /\ cur.win # "own"
    /\ os_pc' = HandlerReturn(exiting)
    /\ UNCHANGED << touched, cur, exiting, delivered, userVars, spawned, to_user,
                    to_presenter, forwarded, taken, renders, os_log,
                    registryVars, gpuVars >>

\* ------------------------------------------------------ specification
\* HeatwaveApp::new_with_window: empty registries, counters at 0.
RegistryEmpty ==
    /\ buffers = << >>
    /\ next_buffer_id = 0
    /\ render_pipelines = << >>
    /\ next_render_id = 0
    /\ compute_pipelines = << >>
    /\ next_compute_id = 0
    /\ issued = << >>
    /\ converted = << >>

\* The application object was built by a call of GpuConnection::new that
\* met a.
Connected(a) ==
    /\ touched = {Touch(OsThread, "connection")}
    /\ connect_args = a
    /\ connect_result = ConnectOutcome(a)
    /\ connection = {GpuConnection(a)}

\* A window of 800x600 on a system where every step succeeds.
DefaultArgs ==
    [size |-> Size(800, 600), surface_ok |-> TRUE, adapter_ok |-> TRUE,
     device_ok |-> TRUE, formats |-> << "Bgra8UnormSrgb" >>]

\* The same window and system with a surface that reports any one format.
AppArgs ==
    { [DefaultArgs EXCEPT !.formats = << f >>] : f \in Formats }

Init ==
    /\ os_pc = "setup"
    /\ cur = NoEvent
    /\ exiting = FALSE
    /\ delivered = << >>
    /\ spawned = 0
    /\ user_pc = "none"
    /\ mouse_position = 0
    /\ to_user = << >>
    /\ to_presenter = << >>
    /\ forwarded = << >>
    /\ handled = << >>
    /\ answered = << >>
    /\ taken = << >>
    /\ renders = << >>
    /\ os_log = {}
    /\ user_log = {}
    /\ RegistryEmpty
    /\ \E a \in AppArgs : Connected(a)

Next ==
    \/ AddBuffer
    \/ AddBufferWithDefaults
    \/ AddRenderPipeline
    \/ AddSimpleRenderPipeline
    \/ AddComputePipeline
    \/ Run
    \/ HandlerEntry

Spec == Init /\ [][Next]_vars

\* Both threads are scheduled by the operating system: a step that stays
\* possible is eventually taken.
FairSpec == Spec /\ WF_vars(Next)

\* The run's channels exist and its user thread is waiting in recv().
InitBridge ==
    /\ os_pc = "loop"
    /\ cur = NoEvent
    /\ exiting = FALSE
    /\ delivered = << >>
    /\ spawned = 1
    /\ user_pc = "recv"
    /\ mouse_position = 0
    /\ to_user = << >>
    /\ to_presenter = << >>
    /\ forwarded = << >>
    /\ handled = << >>
    /\ answered = << >>
    /\ taken = << >>
    /\ renders = << >>
    /\ os_log = {}
    /\ user_log = {}
    /\ RegistryEmpty
    /\ Connected(DefaultArgs)

\* GpuConnection::new on its own, for every window size, outcome of its
\* steps and list of supported formats.
InitConnect ==
    /\ os_pc = "new"
    /\ cur = NoEvent
    /\ exiting = FALSE
    /\ delivered = << >>
    /\ spawned = 0
    /\ user_pc = "none"
    /\ mouse_position = 0
    /\ to_user = << >>
    /\ to_presenter = << >>
    /\ forwarded = << >>
    /\ handled = << >>
    /\ answered = << >>
    /\ taken = << >>
    /\ renders = << >>
    /\ os_log = {}
    /\ user_log = {}
    /\ RegistryEmpty
    /\ touched = {}
    /\ connect_args \in ConnectArgs
    /\ connect_result = "none"
    /\ connection = {}

NextConnect == New

SpecConnect == InitConnect /\ [][NextConnect]_vars

\* default_handler from its event match on.
HandlerBody ==
    \/ ArmRedraw
    \/ RenderWaitRecv
    \/ RenderWaitDisconnected
    \/ ArmClose
    \/ CloseWaitRecv
    \/ CloseWaitDisconnected
    \/ ArmOrdinary
    \/ ArmIgnore

\* The closure given to thread::spawn.
UserThread ==
    \/ UserThreadRecv
    \/ UserCallbackReturns
    \/ UserCallbackPanics
    \/ UserThreadDisconnected

NextBridge == Deliver \/ HandlerBody \/ UserThread

SpecBridge == InitBridge /\ [][NextBridge]_vars

\* The whole step relation of the program as written.  JoinReturn is never
\* enabled in it, so it reaches exactly the states of Spec.
NextAsWritten == Next \/ JoinReturn \/ HandlerBody \/ UserThread

SpecAsWritten == Init /\ [][NextAsWritten]_vars


\* ------------------------------------------------------------ claims
Count(q, P(_)) == Cardinality({ i \in DOMAIN q : P(q[i]) })

IsRedrawEvent(e) == e.win = "own" /\ e.kind = "RedrawRequested"

IsCloseEvent(e) == e.win = "own" /\ e.kind = "CloseRequested"

IsOrdinaryEvent(e) ==
    e.win = "own" /\ e.kind \notin {"RedrawRequested", "CloseRequested"}

IsRequestMsg(m) == m.kind = "RequestRenderData"

IsCloseNote(m) == m.kind = "CloseRequested"

IsRenderAnswer(m) == m.kind = "RenderDataPrepared"

IsAck(m) == m.kind = "ReadyToClose"

RedrawsDelivered == Count(delivered, IsRedrawEvent)

RequestsSent == Count(forwarded, IsRequestMsg)

CloseNotesSent == Count(forwarded, IsCloseNote)

RenderAnswersSent == Count(answered, IsRenderAnswer)

AcksSent == Count(answered, IsAck)

RenderAnswersTaken == Count(taken, IsRenderAnswer)

\* The handler has been called with the event and has not returned.
InHandler == os_pc \notin {"setup", "loop", "exited"}

\* The OS thread is waiting for the user thread: in join(), or in recv() on
\* receiver_presenter.
OsWaitsOnUser == os_pc \in {"join", "render_wait", "close_wait"}

RenderPending == os_pc = "render_wait"

ClosePending == os_pc = "close_wait"

Idle == os_pc = "loop"

Terminal == os_pc = "exited"

\* C1: a redraw request the handler was called with is followed by the
\* handler returning to the event loop with one render-data-request sent,
\* one render-data-response received and one render callback per redraw
\* request delivered so far.
C1_RedrawRendersExactlyOnce ==
    (InHandler /\ IsRedrawEvent(cur))
        ~> ( /\ Idle
             /\ RequestsSent = RedrawsDelivered
             /\ RenderAnswersTaken = RedrawsDelivered
             /\ Len(renders) = RedrawsDelivered )

C3_WaitsOnlyInExchange == OsWaitsOnUser => (RenderPending \/ ClosePending)

Unexpected(m) ==
    \/ RenderPending /\ m.kind # "RenderDataPrepared"
    \/ ClosePending /\ m.kind # "ReadyToClose"

C8_OrdinaryForwardedWithoutBlocking ==
    /\ (InHandler /\ IsOrdinaryEvent(cur)) => ~OsWaitsOnUser
    /\ Idle => Len(forwarded) - RequestsSent - CloseNotesSent
                   = Count(delivered, IsOrdinaryEvent)

IsExitDone(h) == h.cb = "on_exit" /\ h.done

ExitsCompleted == Count(handled, IsExitDone)

C12_CreatedOncePerRun ==
    [][spawned' # spawned => os_pc = "setup"]_vars

\* Positions in the history of the add calls made on a namespace.
IssuedIn(ns) == { i \in DOMAIN issued : issued[i].ns = ns }

HandlesOf(ns) == { issued[i].handle : i \in IssuedIn(ns) }

\* C13: in each namespace every handle an add call returned is greater than
\* all handles returned there before, the mapping holds one entry per add
\* call made (none removed, none overwritten), and every handle returned
\* so far resolves via get to the object added under it.
C13_HandlesIncreaseAndResolve ==
    /\ \A i, j \in DOMAIN issued :
          (i < j /\ issued[i].ns = issued[j].ns)
              => issued[i].handle < issued[j].handle
    /\ \A ns \in Namespaces :
          Cardinality(DOMAIN Registry(ns)) = Cardinality(IssuedIn(ns))
    /\ \A i \in DOMAIN issued :
          Get(issued[i].ns, issued[i].handle) = {issued[i].obj}

\* C13 witness: two adds on a render-pipeline namespace that hold different
\* objects, the run started afterwards.
C13_Witness ==
    /\ os_pc = "loop"
    /\ Len(issued) = 2
    /\ issued[1].ns = "render"
    /\ issued[2].ns = "render"
    /\ issued[1].obj # issued[2].obj
    /\ Get("render", issued[1].handle) = {issued[1].obj}

\* C14: the n-th add on a namespace returns n-1 (the first returns 0), get of
\* an issued handle returns the object added under it, and get of a handle
\* never issued in the namespace returns not-found.
C14_NthAddReturnsNMinusOne ==
    /\ \A i \in DOMAIN issued :
          /\ issued[i].handle =
                 Cardinality({ j \in IssuedIn(issued[i].ns) : j < i })
          /\ Get(issued[i].ns, issued[i].handle) = {issued[i].obj}
    /\ \A ns \in Namespaces :
          \A h \in 0..(MaxAdds + 1) :
              h \notin HandlesOf(ns) => Get(ns, h) = NotFound

\* C14 witness: add(bufferA) gave 0, add(bufferB) gave 1, get(0) is bufferA,
\* get(1) is bufferB and get(2) is not-found.
C14_Witness ==
    /\ Len(issued) = 2
    /\ issued[1].ns = "buffer"
    /\ issued[2].ns = "buffer"
    /\ issued[1].obj # issued[2].obj
    /\ issued[1].handle = 0
    /\ issued[2].handle = 1
    /\ Get("buffer", 0) = {issued[1].obj}
    /\ Get("buffer", 1) = {issued[2].obj}
    /\ Get("buffer", 2) = NotFound

\* C15: a handle issued by one namespace is the key of no entry in either of
\* the other two namespaces.
C15_NoCrossNamespaceResolution ==
    \A i \in DOMAIN issued :
        \A ns \in Namespaces \ {issued[i].ns} :
            issued[i].handle \notin DOMAIN Registry(ns)

\* The client size the window is last known to have: the size of the latest
\* Resized event of the own window that has an area, or else the inner size
\* the window had when the connection was made.
SizedResizes ==
    { i \in DOMAIN delivered :
        /\ delivered[i].win = "own"
        /\ delivered[i].kind = "Resized"
        /\ delivered[i].size.width > 0
        /\ delivered[i].size.height > 0 }

LastKnownSize ==
    IF SizedResizes = {} THEN connect_args.size
    ELSE delivered[CHOOSE i \in SizedResizes : \A j \in SizedResizes : j <= i].size

C18_FirstFailingStepDecides ==
    connect_result # "none" =>
        /\ (connect_args.size.width > 0 /\ connect_args.size.height > 0) =>
              /\ ~connect_args.surface_ok
                     => connect_result = "SurfaceCreation"
              /\ (connect_args.surface_ok /\ ~connect_args.adapter_ok)
                     => connect_result = "CompatibleAdapterNotFound"
              /\ (connect_args.surface_ok /\ connect_args.adapter_ok
                    /\ ~connect_args.device_ok)
                     => connect_result = "DeviceRequest"
              /\ (connect_args.surface_ok /\ connect_args.adapter_ok
                    /\ connect_args.device_ok)
                     => connect_result = "Ok"
        /\ (connect_result = "Ok") = (connection # {})

\* C18 witness: the call has ended with CompatibleAdapterNotFound on a
\* system whose device request would fail as well, and no connection exists.
C18_Witness ==
    /\ os_pc = "init_failed"
    /\ connect_result = "CompatibleAdapterNotFound"
    /\ ~connect_args.device_ok
    /\ connection = {}

\* C19: the surface format of a connection made is an sRGB format of the
\* supported list whenever that list holds one, and the list's first format
\* otherwise.
C19_SrgbPreferred ==
    connect_result = "Ok" =>
        LET fs == connect_args.formats
            f == SurfaceConfig.format
        IN IF \E i \in DOMAIN fs : IsSrgb(fs[i])
           THEN IsSrgb(f) /\ \E i \in DOMAIN fs : fs[i] = f
           ELSE f = fs[1]

\* C19 witness: a connection made on a surface whose first supported format
\* is not sRGB and whose second is.
C19_Witness ==
    /\ connect_result = "Ok"
    /\ Len(connect_args.formats) = 2
    /\ ~IsSrgb(connect_args.formats[1])
    /\ IsSrgb(connect_args.formats[2])
    /\ SurfaceConfig.format = connect_args.formats[2]

IsPipeline(a) == a.ns \in {"render", "compute"}

\* C20: a render or compute pipeline added with no layout in its description
\* is built with the application's one pipeline layout, and one added with a
\* layout of its own is built with that layout; the stored pipeline is the
\* one built.
C20_LayoutDefaulting ==
    \A i \in DOMAIN issued :
        IsPipeline(issued[i]) =>
            /\ issued[i].desc.layout = "None"
                   => issued[i].obj.layout = "pipeline_layout"
            /\ issued[i].desc.layout # "None"
                   => issued[i].obj.layout = issued[i].desc.layout
            /\ Registry(issued[i].ns)[issued[i].handle].layout
                   = issued[i].obj.layout

\* C20 witness: a render pipeline added without a layout and a compute
\* pipeline added with the caller's own.
C20_Witness ==
    /\ Len(issued) = 2
    /\ issued[1].ns = "render"
    /\ issued[1].desc.layout = "None"
    /\ issued[1].obj.layout = "pipeline_layout"
    /\ issued[2].ns = "compute"
    /\ issued[2].desc.layout = "caller_layout"
    /\ issued[2].obj.layout = "caller_layout"

\* C21: a render pipeline added with a fragment stage that lists no colour
\* target is built with exactly one target, of the connection's surface
\* format, blend REPLACE and write mask ALL; one added with targets of its
\* own is built with those targets unchanged; one added without a fragment
\* stage is built without a fragment stage and without targets.
C21_TargetSynthesis ==
    \A i \in DOMAIN issued :
        issued[i].ns = "render" =>
            LET d == issued[i].desc
                o == issued[i].obj
            IN /\ o.has_fragment = d.has_fragment
               /\ (d.has_fragment /\ d.targets = << >>) =>
                      /\ Len(o.targets) = 1
                      /\ o.targets[1].format = SurfaceConfig.format
                      /\ o.targets[1].blend = "REPLACE"
                      /\ o.targets[1].write_mask = "ALL"
               /\ (d.has_fragment /\ d.targets # << >>) => o.targets = d.targets
               /\ ~d.has_fragment => o.targets = << >>

\* C21 witness: on a connection whose surface format is not sRGB, one
\* pipeline added with an empty target list and one with the caller's own.
C21_Witness ==
    /\ SurfaceConfig.format = "Rgba8Unorm"
    /\ Len(issued) = 2
    /\ issued[1].ns = "render"
    /\ issued[1].desc.has_fragment
    /\ issued[1].desc.targets = << >>
    /\ issued[1].obj.targets[1].format = "Rgba8Unorm"
    /\ issued[2].ns = "render"
    /\ issued[2].desc.targets = << CallerTarget >>
    /\ issued[2].obj.targets = << CallerTarget >>

\* C22: a conversion of a simple descriptor with a fragment module and no
\* fragment entry point panics, and the add call it belongs to leaves the
\* registry as it was and is the thread's last; a simple descriptor without
\* a fragment module is converted and added whether or not it names a
\* fragment entry point, and so is one with both.
C22_MissingEntryPointIsFatal ==
    \A i \in DOMAIN converted :
        LET c == converted[i]
        IN /\ c.panicked =
                  (c.simple.has_fragment /\ c.simple.fragment_entry_point = "None")
           /\ c.panicked =>
                  /\ os_pc = "panicked"
                  /\ i = Len(converted)
                  /\ Len(issued) = c.adds
                  /\ Cardinality(DOMAIN render_pipelines) = next_render_id
                  /\ next_render_id = Cardinality(IssuedIn("render"))
           /\ ~c.panicked =>
                  /\ Len(issued) > c.adds
                  /\ issued[c.adds + 1].ns = "render"
                  /\ issued[c.adds + 1].desc.has_fragment = c.simple.has_fragment
                  /\ Get("render", issued[c.adds + 1].handle)
                         = {issued[c.adds + 1].obj}

\* C22 witness: a simple descriptor without fragment module and without
\* entry point was added, then one with a fragment module and no entry
\* point ended the setup, the first pipeline being the only one.
C22_Witness ==
    /\ Len(converted) = 2
    /\ ~converted[1].simple.has_fragment
    /\ converted[1].simple.fragment_entry_point = "None"
    /\ ~converted[1].panicked
    /\ converted[2].panicked
    /\ os_pc = "panicked"
    /\ DOMAIN render_pipelines = {0}

Phase ==
    CASE os_pc \in {"loop", "match"} -> "Idle"
      [] os_pc = "render_wait" -> "RenderPending"
      [] os_pc = "close_wait" -> "ClosePending"
      [] os_pc = "exited" -> "Terminal"
      [] os_pc = "panicked" -> "Fatal"
      [] OTHER -> "Other"

PhaseNext(ph) ==
    CASE ph = "Idle" -> {"Idle", "RenderPending", "ClosePending"}
      [] ph = "RenderPending" -> {"RenderPending", "Idle", "Fatal"}
      [] ph = "ClosePending" -> {"ClosePending", "Terminal"}
      [] OTHER -> {ph}

\* C25: once the run has started the OS thread moves only Idle ->
\* RenderPending, RenderPending -> Idle, Idle -> ClosePending, ClosePending
\* -> Terminal and RenderPending -> Fatal; an event is handed to the handler
\* only in Idle; RenderPending and ClosePending are different states.
C25_OnlyProtocolTransitions ==
    /\ [][ os_pc # "setup" => Phase' \in PhaseNext(Phase) ]_vars
    /\ [][ delivered' # delivered => Phase = "Idle" ]_vars
    /\ [][ ~(RenderPending /\ ClosePending) ]_vars

\* C26: a redraw request the handler was called with is eventually followed
\* by a render callback and the handler's return to the event loop, and a
\* close request it was called with by the end of the run loop.
C26_RedrawAndCloseComplete ==
    /\ (InHandler /\ IsRedrawEvent(cur)) ~> (Idle /\ renders # << >>)
    /\ (InHandler /\ IsCloseEvent(cur)) ~> Terminal

C28_RequestsEqualRedraws ==
    /\ \A e \in LoopEvents : From(e).kind # "RequestRenderData"
    /\ RequestsSent <= RedrawsDelivered
    /\ ~(os_pc = "match" /\ IsRedrawEvent(cur))
         => RequestsSent = RedrawsDelivered

\* The position of the latest cursor move whose arm the user thread
\* completed before the i-th message it took, (0,0) if there is none.
LastMovedBefore(i) ==
    LET moves == { j \in DOMAIN handled :
                     /\ j < i
                     /\ handled[j].ev.kind = "CursorMoved"
                     /\ handled[j].done }
    IN IF moves = {} THEN 0
       ELSE handled[CHOOSE j \in moves : \A k \in moves : k <= j].ev.pos

IsButtonCall(h) == h.cb \in {"on_mouse_down", "on_mouse_up"}

IsUnrecognised(e) == e.win = "own" /\ e.kind = "ThemeChanged"

UnknownMsg == WinMsg("Unknown", 0)

UnknownWarning == "Unknown event from window!"

Counter(ns) ==
    CASE ns = "buffer" -> next_buffer_id
      [] ns = "render" -> next_render_id
      [] ns = "compute" -> next_compute_id

\* C32: the mapping and the counter of a namespace change only in a step
\* that is one add call on that namespace, so an add leaves the other two
\* namespaces as they were; the handles add_buffer and
\* add_buffer_with_defaults returned, in whatever order the two were
\* called, increase strictly in call order.
C32_AddsAreFramedPerNamespace ==
    /\ [](\A i, j \in IssuedIn("buffer") :
              i < j => issued[i].handle < issued[j].handle)
    /\ [][ \A ns \in Namespaces :
             (Registry(ns)' # Registry(ns) \/ Counter(ns)' # Counter(ns))
                 => ( /\ Len(issued') = Len(issued) + 1
                      /\ issued'[Len(issued')].ns = ns
                      /\ Counter(ns)' = Counter(ns) + 1 ) ]_vars

\* C32 witness: add_buffer_with_defaults, then add_buffer: the handles are
\* 0 and 1, and the two pipeline namespaces are as new_with_window left
\* them.
C32_Witness ==
    /\ Len(issued) = 2
    /\ issued[1].ns = "buffer" /\ issued[1].obj.init
    /\ issued[2].ns = "buffer" /\ ~issued[2].obj.init
    /\ issued[1].handle = 0
    /\ issued[2].handle = 1
    /\ Counter("buffer") = 2
    /\ \A ns \in {"render", "compute"} :
           Registry(ns) = << >> /\ Counter(ns) = 0

\* An event that is no window event of the application's own window.
IsForeignEvent(e) == e.win \in {"other", "nowindow"}

\* C33: a step in which the OS thread takes or handles an event that is no
\* window event of the own window sends nothing to-user, reads nothing from
\* to-presenter, runs no render callback and leaves the OS thread Idle.
C33_ForeignEventHasNoEffect ==
    [][ ( /\ IsForeignEvent(cur')
          /\ (os_pc' # os_pc \/ delivered' # delivered) )
            => ( /\ forwarded' = forwarded
                 /\ taken' = taken
                 /\ to_presenter' = to_presenter
                 /\ renders' = renders
                 /\ Phase' = "Idle" ) ]_vars

\* What a keyboard or mouse button event is to become, and the callback it
\* is to reach.
ButtonKinds == {"KeyboardInput", "MouseInput"}

ExpectedKind(e) ==
    CASE e.kind = "KeyboardInput" /\ e.pressed -> "KeyboardDown"
      [] e.kind = "KeyboardInput" /\ ~e.pressed -> "KeyboardUp"
      [] e.kind = "MouseInput" /\ e.pressed -> "MouseDown"
      [] e.kind = "MouseInput" /\ ~e.pressed -> "MouseUp"

ExpectedCallback(k) ==
    CASE k = "KeyboardDown" -> "on_key_press"
      [] k = "KeyboardUp" -> "on_key_release"
      [] k = "MouseDown" -> "on_mouse_down"
      [] k = "MouseUp" -> "on_mouse_up"

TranslatedKinds == {"KeyboardDown", "KeyboardUp", "MouseDown", "MouseUp"}

====
